---- MODULE Spec2Model ----
(***************************************************************************)
(* Restock cycle analyser (src/app.py): a Streamlit script that loads a    *)
(* logistics table once, and on every interaction re-runs top to bottom:   *)
(* sidebar widgets -> filter chain -> empty-result guard -> KPIs -> four   *)
(* tabs with eight charts -> table of the filtered rows.                   *)
(*                                                                         *)
(* Encoding of values                                                      *)
(*   a cell of an HH:MM column   <<h, m>>, or << >> for an empty cell      *)
(*   a parsed time (Timestamp)   [nat |-> FALSE, t |-> minutes after       *)
(*                                1900-01-01 00:00], or NaT                *)
(*   a float (Delay_Minutes)     [nan |-> FALSE, v |-> n], or NaN          *)
(*   a float shown to 1 decimal  the same record, v in tenths              *)
(*   a date                      the day number 1..MaxDay of one month     *)
(*   a missing object cell       NA                                        *)
(***************************************************************************)
EXTENDS Integers, Sequences, FiniteSets, TLC

\* ------------------------------------------------------------- bounds
\* Days of the month the records fall on.
MaxDay == 2
\* Rows of a dataset that varies date, department, reason and stockout.
MaxRows == 2
\* Rows of a dataset that varies reason, stockout and delay.
MaxKpiRows == 3
\* Rows of a dataset that varies the three time-of-day cells.
MaxLoadRows == 2

\* ---------------------------------------------------- program constants
\* 24 * 60, added to a negative delay (app.py:77).
MinutesPerDay == 1440
\* total_seconds() / 60 (app.py:75).
SecondsPerMinute == 60

NA == "<NA>"
NaT == [nat |-> TRUE, t |-> 0]
NaN == [nan |-> TRUE, v |-> 0]
Num(n) == [nan |-> FALSE, v |-> n]

\* --------------------------------------------------- the source table
DeptSeq == <<"Dairy", "Produce">>
RawReasonSeq == <<NA, "Traffic">>
StockoutSeq == <<"Yes", "No">>
ArrivalSeq == <<<<8, 0>>, <<23, 50>>, <<24, 0>>>>
ShelfSeq == <<<<8, 45>>, <<0, 10>>, << >>, <<23, 50>>>>
UnloadingSeq == <<<<8, 10>>, <<9, 60>>>>
\* (arrival, shelf-stock) pairs of the KPI datasets: 45 min, 20 min across
\* midnight, and an empty shelf-stock cell.
TimePairSeq == <<<<1, 1>>, <<2, 2>>, <<1, 3>>>>

Pick(seq, n) == seq[1 + (n % Len(seq))]

RawRow(date, arr, unl, shelf, dept, reason, stock) ==
    [Date |-> date, Arrival |-> arr, Unloading |-> unl, Shelf |-> shelf,
     Department |-> dept, Reason |-> reason, Stockout |-> stock]

\* Row n of the datasets that exercise the filters: day 1 carries every
\* combination of department, reason and stockout, and each later day one
\* delivery per department, so a non-decreasing code sequence is a
\* chronological log.
FilterRowCount == 8 + (MaxDay - 1) * 2
FilterRow(n) ==
    IF n < 8
    THEN RawRow(1, ArrivalSeq[1], UnloadingSeq[1], ShelfSeq[1],
                Pick(DeptSeq, n \div 4), Pick(RawReasonSeq, n \div 2), Pick(StockoutSeq, n))
    ELSE RawRow(2 + ((n - 8) \div 2), ArrivalSeq[2], UnloadingSeq[1], ShelfSeq[2],
                Pick(DeptSeq, n), Pick(RawReasonSeq, n), StockoutSeq[1])

\* Row n of the datasets that exercise the metrics and the charts.
KpiRowCount == Len(TimePairSeq) * 4
KpiRow(n) ==
    LET tp == Pick(TimePairSeq, n \div 4) IN
    RawRow(1, ArrivalSeq[tp[1]], UnloadingSeq[1], ShelfSeq[tp[2]],
           DeptSeq[1], Pick(RawReasonSeq, n \div 2), Pick(StockoutSeq, n))

\* Row n of the datasets that exercise the loader: every pair of arrival and
\* shelf-stock cells beside a good unloading cell, and one row whose only
\* bad cell is the unloading time, which no later step reads.
LoadRowCount == Len(ArrivalSeq) * Len(ShelfSeq) + 1
LoadRow(n) ==
    IF n < Len(ArrivalSeq) * Len(ShelfSeq)
    THEN RawRow(1, Pick(ArrivalSeq, n \div Len(ShelfSeq)), UnloadingSeq[1],
                Pick(ShelfSeq, n), DeptSeq[1], NA, StockoutSeq[1])
    ELSE RawRow(1, ArrivalSeq[1], UnloadingSeq[2], ShelfSeq[1],
                DeptSeq[1], NA, StockoutSeq[1])

\* One representative per multiset of rows: no operation of the program reads
\* the position of a row.
Codes(len, count) ==
    {c \in [1..len -> 0..(count - 1)] : \A i \in 1..(len - 1) : c[i] <= c[i + 1]}

FilterTables ==
    UNION {{[i \in 1..len |-> FilterRow(c[i])] : c \in Codes(len, FilterRowCount)} :
           len \in 1..MaxRows}
KpiTables ==
    UNION {{[i \in 1..len |-> KpiRow(c[i])] : c \in Codes(len, KpiRowCount)} :
           len \in 1..MaxKpiRows}
LoadTables ==
    UNION {{[i \in 1..len |-> LoadRow(c[i])] : c \in Codes(len, LoadRowCount)} :
           len \in 1..MaxLoadRows}
Tables == FilterTables \cup KpiTables \cup LoadTables

\* ------------------------------------------------------------ load_data
\* pd.to_datetime(df["Date"]): midnight of the day.
ToDatetimeDate(day) == [nat |-> FALSE, t |-> day * MinutesPerDay]
\* Series.dt.date
DtDate(ts) == ts.t \div MinutesPerDay

\* pd.to_datetime(cell, format="%H:%M", errors='coerce')
ToDatetimeHM(cell) ==
    IF Len(cell) = 2 /\ cell[1] \in 0..23 /\ cell[2] \in 0..59
    THEN [nat |-> FALSE, t |-> cell[1] * 60 + cell[2]]
    ELSE NaT

\* DelayMinutes with a missing difference filled with 0.
DelayMinutesFillZero(shelf, arrival) ==
    IF shelf.nat \/ arrival.nat
    THEN Num(0)
    ELSE Num(((shelf.t - arrival.t) * SecondsPerMinute) \div SecondsPerMinute)

\* (shelf - arrival).dt.total_seconds() / 60
DelayMinutes(shelf, arrival) ==
    IF shelf.nat \/ arrival.nat
    THEN NaN
    ELSE Num(((shelf.t - arrival.t) * SecondsPerMinute) \div SecondsPerMinute)

\* FixNegative without the correction.
FixNegativeOmitted(d) == d

\* FixNegative with <= 0 for < 0.
FixNegativeInclusive(d) ==
    IF ~d.nan /\ d.v <= 0 THEN Num(d.v + MinutesPerDay) ELSE d

\* df.loc[df["Delay_Minutes"] < 0, "Delay_Minutes"] += 24 * 60
FixNegative(d) ==
    IF ~d.nan /\ d.v < 0 THEN Num(d.v + MinutesPerDay) ELSE d

\* FillNa without the fill.
FillNaOmitted(cell) == cell

\* Series.fillna("None")
FillNa(cell) == IF cell = NA THEN "None" ELSE cell

LoadRecord(raw) ==
    LET arrival == ToDatetimeHM(raw.Arrival)
        unloading == ToDatetimeHM(raw.Unloading)
        shelf == ToDatetimeHM(raw.Shelf)
    IN  [Date |-> ToDatetimeDate(raw.Date),
         Arrival |-> arrival, Unloading |-> unloading, Shelf |-> shelf,
         Department |-> raw.Department,
         Reason |-> FillNa(raw.Reason),
         Stockout |-> raw.Stockout,
         Delay_Minutes |-> FixNegative(DelayMinutes(shelf, arrival))]

load_data(table) == [i \in 1..Len(table) |-> LoadRecord(table[i])]

VARIABLES
    csv,                    \* rows of Walmart_Logistics_Dataset.csv
    df,                     \* load_data()'s cached frame, << >> before the load
    pc,                     \* position of the running pass of the script
    start_date, end_date,   \* the date range after the len(date_range) test
    selected_departments, selected_reasons, stockout_filter,
    filtered_df,            \* index labels of the rows the filters kept
    warning,                \* st.warning was shown
    kpi,                    \* the four metric cards
    charts,                 \* what each of fig1..fig8 showed
    fig6,                   \* delay_stockout_corr as plotted, to 1 decimal
    exception               \* the uncaught exception that ended the pass

vars == <<csv, df, pc, start_date, end_date, selected_departments, selected_reasons,
          stockout_filter, filtered_df, warning, kpi, charts, fig6, exception>>

widgets == <<start_date, end_date, selected_departments, selected_reasons,
             stockout_filter>>
outputs == <<warning, kpi, charts, fig6, exception>>

Range(seq) == {seq[k] : k \in 1..Len(seq)}

\* ---------------------------------------------------------------- sidebar
Min(S) == CHOOSE x \in S : \A y \in S : x <= y
Max(S) == CHOOSE x \in S : \A y \in S : x >= y
min_date == Min({DtDate(df[i].Date) : i \in 1..Len(df)})
max_date == Max({DtDate(df[i].Date) : i \in 1..Len(df)})
all_departments == {df[i].Department : i \in 1..Len(df)}
all_reasons == {df[i].Reason : i \in 1..Len(df)}
StockoutOptions == {"All", "Stockout", "No Stockout"}

\* What st.date_input can return: a (start, end) pair inside the data's range,
\* or a 1-tuple while the user has picked only the start.
DateRanges ==
    {r \in (min_date..max_date) \X (min_date..max_date) : r[1] <= r[2]}
        \cup {<<a>> : a \in min_date..max_date}

NotComputed ==
    [computed |-> FALSE, total_deliveries |-> 0, delayed_deliveries |-> 0,
     delay_percentage |-> 0, stockouts |-> 0, stockout_percentage |-> 0,
     avg_delay |-> NaN]
NoCharts == [n \in 1..8 |-> "pending"]
NoSeries == [g \in {} |-> NaN]

\* ----------------------------------------------------------- filter chain
Index(frame) == [i \in 1..Len(frame) |-> i]

\* DateFilter with an exclusive end date.
DateFilterExclusiveEnd(frame, sub, lo, hi) ==
    LET keep(i) == DtDate(frame[i].Date) >= lo /\ DtDate(frame[i].Date) < hi
    IN  SelectSeq(sub, keep)

DateFilter(frame, sub, lo, hi) ==
    LET keep(i) == DtDate(frame[i].Date) >= lo /\ DtDate(frame[i].Date) <= hi
    IN  SelectSeq(sub, keep)

\* DepartmentFilter without the "if selected_departments" test.
DepartmentFilterStrict(frame, sub, selected) ==
    LET keep(i) == frame[i].Department \in selected
    IN  SelectSeq(sub, keep)

DepartmentFilter(frame, sub, selected) ==
    LET keep(i) == frame[i].Department \in selected
    IN  IF selected # {} THEN SelectSeq(sub, keep) ELSE sub

ReasonFilter(frame, sub, selected) ==
    LET keep(i) == frame[i].Reason \in selected
    IN  IF selected # {} THEN SelectSeq(sub, keep) ELSE sub

StockoutFilter(frame, sub, mode) ==
    LET yes(i) == frame[i].Stockout = "Yes"
        no(i) == frame[i].Stockout = "No"
    IN  IF mode = "Stockout" THEN SelectSeq(sub, yes)
        ELSE IF mode = "No Stockout" THEN SelectSeq(sub, no)
        ELSE sub

apply_filters(frame, lo, hi, depts, reasons, mode) ==
    StockoutFilter(frame,
        ReasonFilter(frame,
            DepartmentFilter(frame,
                DateFilter(frame, Index(frame), lo, hi), depts), reasons), mode)

\* ------------------------------------------------------------------ floats
\* The metrics are IEEE 754 doubles. A natural number is written here in
\* base 2^15, a sequence of limbs with the most significant first; a double
\* is [m |-> such a number below 2^53, e |-> an exponent], of value m * 2^e.
LimbBits == 15
Limb == 2^LimbBits

\* An int below 2^31 as three limbs.
NatOfInt(n) == <<n \div (Limb * Limb), (n \div Limb) % Limb, n % Limb>>

RECURSIVE IntOfPrefix(_, _)
IntOfPrefix(x, n) == IF n = 0 THEN 0 ELSE Limb * IntOfPrefix(x, n - 1) + x[n]

IntOfNat(x) == IntOfPrefix(x, Len(x))

\* The place of the first limb of x from place i on that is not 0,
\* Len(x) + 1 when there is none.
RECURSIVE Top(_, _)
Top(x, i) == IF i > Len(x) \/ x[i] # 0 THEN i ELSE Top(x, i + 1)

\* x without its leading zero limbs.
Trim(x) == SubSeq(x, Top(x, 1), Len(x))

\* The number of binary digits of a limb, 0 for zero.
RECURSIVE LimbLength(_)
LimbLength(v) == IF v = 0 THEN 0 ELSE 1 + LimbLength(v \div 2)

\* The number of binary digits of x, 0 for zero.
BitLength(x) ==
    LET top == Top(x, 1)
    IN  IF top > Len(x) THEN 0
        ELSE (Len(x) - top) * LimbBits + LimbLength(x[top])

\* Binary digit i of x, digit 0 the least significant.
Bit(x, i) ==
    LET at == Len(x) - (i \div LimbBits)
    IN  IF at < 1 THEN 0 ELSE (x[at] \div 2^(i % LimbBits)) % 2

\* x \div 2^d
ShiftRight(x, d) ==
    LET n == Len(x) - (d \div LimbBits)
        low == 2^(d % LimbBits)
        high == 2^(LimbBits - (d % LimbBits))
    IN  SubSeq([i \in 1..n |->
                   (x[i] \div low)
                   + (IF i > 1 THEN (x[i - 1] % low) * high ELSE 0)], 1, n)

\* x % 2^d # 0
Sticky(x, d) ==
    LET limbs == d \div LimbBits
        at == Len(x) - limbs
    IN  \/ \E i \in (at + 1)..Len(x) : i >= 1 /\ x[i] # 0
        \/ at >= 1 /\ x[at] % 2^(d % LimbBits) # 0

\* x * k + c for ints k and c below 2^15
RECURSIVE MulAddTo(_, _, _, _)
MulAddTo(x, n, k, c) ==
    IF n = 0 THEN <<c>>
    ELSE Append(MulAddTo(x, n - 1, k, (x[n] * k + c) \div Limb),
                (x[n] * k + c) % Limb)

MulAdd(x, k, c) == MulAddTo(x, Len(x), k, c)

\* x * 2^e rounded to the nearest double, ties to the even mantissa.
RoundToDouble(x, e) ==
    LET length == BitLength(x)
        dropped == length - 53
        keep == Trim(ShiftRight(x, dropped))
        half == Bit(x, dropped - 1) = 1
        up == half /\ (Sticky(x, dropped - 1) \/ keep[Len(keep)] % 2 = 1)
        next == Trim(MulAdd(keep, 1, 1))
    IN  IF length <= 53 THEN [m |-> Trim(x), e |-> e]
        ELSE IF ~up THEN [m |-> keep, e |-> e + dropped]
        ELSE IF BitLength(next) = 54
        THEN [m |-> Trim(ShiftRight(next, 1)), e |-> e + dropped + 1]
        ELSE [m |-> next, e |-> e + dropped]

\* n more limbs of the expansion of r / b after acc, for r < b < 2^16.
RECURSIVE LongDivision(_, _, _, _)
LongDivision(r, b, n, acc) ==
    IF n = 0 THEN [limbs |-> acc, rem |-> r]
    ELSE LongDivision((r * Limb) % b, b, n - 1, Append(acc, (r * Limb) \div b))

\* The limbs of a quotient taken after its point: 75 digits, of which at
\* least 54 are significant for a divisor below 2^16.
FractionLimbs == 5

\* a / b of two ints, a >= 0 and 0 < b < 2^16, as a float: the quotient to
\* 75 places and one more limb that is 1 when a remainder is left, rounded.
FloatDiv(a, b) ==
    LET whole == IF a < b THEN << >> ELSE NatOfInt(a \div b)
        d == LongDivision(a % b, b, FractionLimbs, whole)
    IN  RoundToDouble(Append(d.limbs, IF d.rem = 0 THEN 0 ELSE 1),
                      -((FractionLimbs + 1) * LimbBits))

\* x * k of a float and an int below 2^15.
FloatMul(x, k) == RoundToDouble(MulAdd(x.m, k, 0), x.e)

\* The integer nearest to x * 2^e, ties to the even one.
RoundToInt(x, e) ==
    IF e >= 0 THEN IntOfNat(x) * 2^e
    ELSE LET whole == IntOfNat(ShiftRight(x, -e))
             half == Bit(x, -e - 1) = 1
         IN  IF half /\ (Sticky(x, -e - 1) \/ whole % 2 = 1)
             THEN whole + 1 ELSE whole

\* Python's round(x, 1) of a float, in tenths: the decimal nearest to the
\* double's exact value, ties to even.
Round1(x) == RoundToInt(MulAdd(x.m, 10, 0), x.e)

\* f"{x:.1f}", in tenths: correctly rounded like round(x, 1).
Format1(x) == RoundToInt(MulAdd(x.m, 10, 0), x.e)

\* round(x, 1) of a numpy.float64, in tenths: rint(x * 10) / 10, where the
\* product is itself rounded to a double.
NumpyRound1(x) ==
    LET product == FloatMul(x, 10) IN RoundToInt(product.m, product.e)

\* ----------------------------------------------------------------- metrics
RECURSIVE SumDelay(_, _)
SumDelay(frame, S) ==
    IF S = {} THEN 0
    ELSE LET i == CHOOSE j \in S : TRUE
         IN  frame[i].Delay_Minutes.v + SumDelay(frame, S \ {i})

\* The rows of S whose Delay_Minutes is a number: mean() skips NaN.
ValidDelays(frame, S) == {i \in S : ~frame[i].Delay_Minutes.nan}

\* Series.mean() of Delay_Minutes over rows with a number: sum / count.
MeanDelay(frame, S) == FloatDiv(SumDelay(frame, S), Cardinality(S))

\* round(filtered_df["Delay_Minutes"].mean(), 1): mean() returns a
\* numpy.float64, and the mean of nothing is NaN.
AvgDelay(frame, S) ==
    LET valid == ValidDelays(frame, S)
    IN  IF valid = {} THEN NaN ELSE Num(NumpyRound1(MeanDelay(frame, valid)))

\* A group's mean delay as its bar is labelled, f"{value:.1f} min".
MeanDelayLabel(frame, S) ==
    LET valid == ValidDelays(frame, S)
    IN  IF valid = {} THEN NaN ELSE Num(Format1(MeanDelay(frame, valid)))

\* DelayedDeliveries counted over df for filtered_df.
DelayedDeliveriesUnfiltered(frame, sub) ==
    Cardinality({i \in 1..Len(frame) : frame[i].Reason # "None"})

DelayedDeliveries(frame, sub) ==
    Cardinality({i \in Range(sub) : frame[i].Reason # "None"})

Stockouts(frame, sub) ==
    Cardinality({i \in Range(sub) : frame[i].Stockout = "Yes"})

\* round((count / total) * 100, 1)
Percentage(count, total) == Round1(FloatMul(FloatDiv(count, total), 100))

\* ------------------------------------------------------------------ charts
\* Series.plot(kind='bar' / 'barh', color=...) with a list of colors: pandas
\* resolves the colors first, a ValueError ("Invalid color argument: []")
\* on an empty list, and then reads the position of its first bar, an
\* IndexError on an empty series. The result is "chart" or the exception.
BarPlot(series, colors) ==
    IF colors = 0 THEN "ValueError"
    ELSE IF DOMAIN series = {} THEN "IndexError"
    ELSE "chart"

\* sns.color_palette(name, len(series)): one color per bar.
color_palette(series) == Cardinality(DOMAIN series)

\* What a chart's slot shows after its plot call.
Drawn(plot) == IF plot \in {"chart", "pending"} THEN plot ELSE "error"

delay_data(frame, sub) ==
    LET delayed(i) == frame[i].Reason # "None"
    IN  SelectSeq(sub, delayed)

\* groupby("Department")["Delay_Minutes"].mean(), each mean as its bar is
\* labelled.
dept_delay(frame, sub) ==
    [d \in {frame[i].Department : i \in Range(sub)} |->
        MeanDelayLabel(frame, {i \in Range(sub) : frame[i].Department = d})]

stockouts_by_dept(frame, sub) ==
    LET yes == {i \in Range(sub) : frame[i].Stockout = "Yes"}
    IN  [d \in {frame[i].Department : i \in yes} |->
            Cardinality({i \in yes : frame[i].Department = d})]

\* groupby("Department")["Stockout Observed"].apply((x == "Yes").mean() * 100),
\* each percentage as its bar is labelled.
dept_stockout(frame, sub) ==
    [d \in {frame[i].Department : i \in Range(sub)} |->
        LET group == {i \in Range(sub) : frame[i].Department = d}
            yes == {i \in group : frame[i].Stockout = "Yes"}
        IN  Format1(FloatMul(FloatDiv(Cardinality(yes), Cardinality(group)), 100))]

\* groupby("Stockout Observed")["Delay_Minutes"].mean(), each mean as its
\* bar is labelled.
delay_stockout_corr(frame, sub) ==
    [g \in {frame[i].Stockout : i \in Range(sub)} |->
        MeanDelayLabel(frame, {i \in Range(sub) : frame[i].Stockout = g})]

\* ----------------------------------------------------------------- actions
Init ==
    /\ csv \in Tables
    /\ df = << >>
    /\ pc = "load"
    /\ start_date = 0 /\ end_date = 0
    /\ selected_departments = {} /\ selected_reasons = {}
    /\ stockout_filter = "All"
    /\ filtered_df = << >>
    /\ warning = FALSE
    /\ kpi = NotComputed
    /\ charts = NoCharts
    /\ fig6 = NoSeries
    /\ exception = ""

\* First pass, df = load_data(): the cache is empty and the file is read.
LoadData ==
    /\ pc = "load"
    /\ df' = load_data(csv)
    /\ pc' = "sidebar"
    /\ UNCHANGED <<csv, widgets, filtered_df, outputs>>

\* First pass, the sidebar: every widget returns its default.
Sidebar ==
    /\ pc = "sidebar"
    /\ start_date' = min_date /\ end_date' = max_date
    /\ selected_departments' = all_departments
    /\ selected_reasons' = all_reasons
    /\ stockout_filter' = "All"
    /\ pc' = "filter"
    /\ UNCHANGED <<csv, df, filtered_df, outputs>>

\* A widget event re-runs the script from the top: the outputs of the last
\* pass are gone, load_data() returns the cached frame, and the sidebar
\* returns the widgets' values.
Rerun ==
    /\ pc \in {"done", "stopped", "failed"}
    /\ filtered_df' = << >>
    /\ warning' = FALSE /\ kpi' = NotComputed /\ charts' = NoCharts
    /\ fig6' = NoSeries /\ exception' = ""
    /\ pc' = "filter"
    /\ UNCHANGED <<csv, df>>

\* Lines 93-103: st.date_input and the len(date_range) == 2 test.
ChangeDateRange ==
    /\ Rerun
    /\ \E date_range \in DateRanges :
          IF Len(date_range) = 2
          THEN start_date' = date_range[1] /\ end_date' = date_range[2]
          ELSE start_date' = min_date /\ end_date' = max_date
    /\ UNCHANGED <<selected_departments, selected_reasons, stockout_filter>>

\* Lines 106-111.
ChangeDepartments ==
    /\ Rerun
    /\ selected_departments' \in SUBSET all_departments
    /\ UNCHANGED <<start_date, end_date, selected_reasons, stockout_filter>>

\* Lines 114-119.
ChangeReasons ==
    /\ Rerun
    /\ selected_reasons' \in SUBSET all_reasons
    /\ UNCHANGED <<start_date, end_date, selected_departments, stockout_filter>>

\* Lines 122-126.
ChangeStockout ==
    /\ Rerun
    /\ stockout_filter' \in StockoutOptions
    /\ UNCHANGED <<start_date, end_date, selected_departments, selected_reasons>>

\* Lines 129-131: st.experimental_rerun() re-runs with the widgets as they are.
ResetAllFilters ==
    /\ Rerun
    /\ UNCHANGED widgets

\* Lines 133-154.
ApplyFilters ==
    /\ pc = "filter"
    /\ filtered_df' = apply_filters(df, start_date, end_date, selected_departments,
                                    selected_reasons, stockout_filter)
    /\ pc' = "guard"
    /\ UNCHANGED <<csv, df, widgets, outputs>>

\* EmptyGuard without st.stop().
EmptyGuardNoStop ==
    /\ pc = "guard"
    /\ warning' = (Len(filtered_df) = 0)
    /\ pc' = "kpi"
    /\ UNCHANGED <<csv, df, widgets, filtered_df, kpi, charts, fig6, exception>>

\* Lines 156-159: st.warning and st.stop on an empty result.
EmptyGuard ==
    /\ pc = "guard"
    /\ IF Len(filtered_df) = 0
       THEN warning' = TRUE /\ pc' = "stopped"
       ELSE warning' = FALSE /\ pc' = "kpi"
    /\ UNCHANGED <<csv, df, widgets, filtered_df, kpi, charts, fig6, exception>>

\* Lines 164-214: the four metric cards.
KeyMetrics ==
    /\ pc = "kpi"
    /\ LET total == Len(filtered_df)
           delayed == DelayedDeliveries(df, filtered_df)
           stock == Stockouts(df, filtered_df)
       IN  IF total = 0
           THEN /\ exception' = "ZeroDivisionError"
                /\ pc' = "failed"
                /\ UNCHANGED kpi
           ELSE /\ kpi' = [computed |-> TRUE,
                           total_deliveries |-> total,
                           delayed_deliveries |-> delayed,
                           delay_percentage |-> Percentage(delayed, total),
                           stockouts |-> stock,
                           stockout_percentage |-> Percentage(stock, total),
                           avg_delay |-> AvgDelay(df, Range(filtered_df))]
                /\ pc' = "tab1"
                /\ UNCHANGED exception
    /\ UNCHANGED <<csv, df, widgets, filtered_df, warning, charts, fig6>>

\* Lines 225-271: charts 1 and 2, both behind len(delay_data) > 0.
Tab1 ==
    /\ pc = "tab1"
    /\ LET shown == IF Len(delay_data(df, filtered_df)) > 0 THEN "chart" ELSE "info"
       IN  charts' = [charts EXCEPT ![1] = shown, ![2] = shown]
    /\ pc' = "tab2"
    /\ UNCHANGED <<csv, df, widgets, filtered_df, warning, kpi, fig6, exception>>

\* Lines 295-338: charts 3 and 4, unguarded.
Tab2 ==
    /\ pc = "tab2"
    /\ LET s3 == dept_delay(df, filtered_df)
           s4 == stockouts_by_dept(df, filtered_df)
           c3 == BarPlot(s3, color_palette(s3))
           c4 == IF c3 # "chart" THEN "pending"
                 ELSE BarPlot(s4, color_palette(s4))
       IN  /\ charts' = [charts EXCEPT ![3] = Drawn(c3), ![4] = Drawn(c4)]
           /\ IF c3 # "chart"
              THEN pc' = "failed" /\ exception' = c3
              ELSE IF c4 # "chart"
              THEN pc' = "failed" /\ exception' = c4
              ELSE pc' = "tab3" /\ UNCHANGED exception
    /\ UNCHANGED <<csv, df, widgets, filtered_df, warning, kpi, fig6>>

\* Lines 360-405: charts 5 and 6, unguarded; chart 6 is given two colors.
Tab3 ==
    /\ pc = "tab3"
    /\ LET s5 == dept_stockout(df, filtered_df)
           corr == delay_stockout_corr(df, filtered_df)
           c5 == BarPlot(s5, color_palette(s5))
           c6 == IF c5 # "chart" THEN "pending" ELSE BarPlot(corr, 2)
       IN  /\ charts' = [charts EXCEPT ![5] = Drawn(c5), ![6] = Drawn(c6)]
           /\ fig6' = IF c6 = "chart" THEN corr ELSE fig6
           /\ IF c5 # "chart"
              THEN pc' = "failed" /\ exception' = c5
              ELSE IF c6 # "chart"
              THEN pc' = "failed" /\ exception' = c6
              ELSE pc' = "tab4" /\ UNCHANGED exception
    /\ UNCHANGED <<csv, df, widgets, filtered_df, warning, kpi>>

\* Lines 426-477: charts 7 (a line plot) and 8 (a bar plot over the seven
\* reindexed weekdays), unguarded.
Tab4 ==
    /\ pc = "tab4"
    /\ charts' = [charts EXCEPT ![7] = "chart", ![8] = "chart"]
    /\ pc' = "table"
    /\ UNCHANGED <<csv, df, widgets, filtered_df, warning, kpi, fig6, exception>>

\* Lines 497-499: st.dataframe(filtered_df), the end of the script.
DataTable ==
    /\ pc = "table"
    /\ pc' = "done"
    /\ UNCHANGED <<csv, df, widgets, filtered_df, outputs>>

Next ==
    \/ LoadData
    \/ Sidebar
    \/ ChangeDateRange
    \/ ChangeDepartments
    \/ ChangeReasons
    \/ ChangeStockout
    \/ ResetAllFilters
    \/ ApplyFilters
    \/ EmptyGuard
    \/ KeyMetrics
    \/ Tab1
    \/ Tab2
    \/ Tab3
    \/ Tab4
    \/ DataTable

Spec == Init /\ [][Next]_vars

\* ------------------------------------------------------------- properties
Loaded == pc # "load"
PastFilter == pc \notin {"load", "sidebar", "filter"}
PastGuard == PastFilter /\ pc # "guard"

\* The cell is an HH:MM time of day.
ValidHM(cell) == Len(cell) = 2 /\ cell[1] \in 0..23 /\ cell[2] \in 0..59
MinutesOfDay(cell) == cell[1] * 60 + cell[2]
\* pandas' d >= 0, which is False of NaN.
GeZero(d) == ~d.nan /\ d.v >= 0

\* The rows the filter specification asks for.
Satisfying ==
    {i \in 1..Len(df) :
        /\ start_date <= DtDate(df[i].Date) /\ DtDate(df[i].Date) <= end_date
        /\ df[i].Department \in selected_departments
        /\ df[i].Reason \in selected_reasons
        /\ \/ stockout_filter = "All"
           \/ stockout_filter = "Stockout" /\ df[i].Stockout = "Yes"
           \/ stockout_filter = "No Stockout" /\ df[i].Stockout = "No"}

\* C1: with non-empty department and reason selections, the working subset
\* is exactly the loaded rows inside the inclusive date range whose
\* department and reason are selected and whose stockout flag matches the
\* mode: it lies in the full set, each row once, and leaves out no such row.
C1_FilterExact ==
    (PastFilter /\ selected_departments # {} /\ selected_reasons # {}) =>
        /\ Range(filtered_df) \subseteq 1..Len(df)
        /\ Cardinality(Range(filtered_df)) = Len(filtered_df)
        /\ Range(filtered_df) = Satisfying

\* A pass whose filters kept one row and dropped another, by a stockout mode.
C1_Witness ==
    /\ PastFilter
    /\ selected_departments # {} /\ selected_reasons # {}
    /\ stockout_filter # "All"
    /\ Len(filtered_df) > 0 /\ Len(filtered_df) < Len(df)

\* C2: a pass whose filtered subset is empty shows the warning and stops
\* with no metric and no chart computed; whenever the metrics are computed
\* total_count > 0, and no pass ends in a division by zero.
C2_EmptyHaltsBeforeMetrics ==
    /\ (PastGuard /\ Len(filtered_df) = 0) =>
            pc = "stopped" /\ warning /\ ~kpi.computed /\ charts = NoCharts
    /\ warning => pc = "stopped" /\ Len(filtered_df) = 0
    /\ kpi.computed => kpi.total_deliveries > 0 /\ Len(filtered_df) > 0
    /\ exception # "ZeroDivisionError"

\* Scenario D: a department is selected and no row matches.
C2_Witness ==
    /\ pc = "stopped" /\ warning
    /\ selected_departments # {} /\ selected_departments # all_departments
    /\ selected_reasons # {} /\ stockout_filter = "All"

\* C3: an empty department selection gives the subset that the chain gives
\* without the department predicate, and that it gives with every
\* department selected; likewise for an empty reason selection.
C3_EmptySelectionPassesThrough ==
    PastFilter =>
        /\ selected_departments = {} =>
              /\ filtered_df =
                    StockoutFilter(df,
                        ReasonFilter(df,
                            DateFilter(df, Index(df), start_date, end_date),
                            selected_reasons), stockout_filter)
              /\ filtered_df =
                    apply_filters(df, start_date, end_date, all_departments,
                                  selected_reasons, stockout_filter)
        /\ selected_reasons = {} =>
              /\ filtered_df =
                    StockoutFilter(df,
                        DepartmentFilter(df,
                            DateFilter(df, Index(df), start_date, end_date),
                            selected_departments), stockout_filter)
              /\ filtered_df =
                    apply_filters(df, start_date, end_date, selected_departments,
                                  all_reasons, stockout_filter)

\* A pass with both selections empty that kept rows and ran to its end.
C3_Witness ==
    /\ pc = "done"
    /\ selected_departments = {} /\ selected_reasons = {}
    /\ Len(filtered_df) > 0

\* C4 as stated: the delay minutes of every loaded record is >= 0.
C4_EveryDelayNonNegative ==
    Loaded => \A i \in 1..Len(df) : GeZero(df[i].Delay_Minutes)

\* C4 as amended: the delay minutes of every loaded record whose arrival and
\* shelf-stock cells are HH:MM times is >= 0.
C4_ParsedDelayNonNegative ==
    Loaded =>
        \A i \in 1..Len(df) :
            (ValidHM(csv[i].Arrival) /\ ValidHM(csv[i].Shelf)) =>
                GeZero(df[i].Delay_Minutes)

\* A loaded table with a record stocked after midnight and a record stocked
\* in the minute of its arrival.
C4_Witness ==
    /\ Loaded
    /\ \E i \in 1..Len(df) :
          /\ ValidHM(csv[i].Arrival) /\ ValidHM(csv[i].Shelf)
          /\ MinutesOfDay(csv[i].Shelf) < MinutesOfDay(csv[i].Arrival)
    /\ \E i \in 1..Len(df) : csv[i].Shelf = csv[i].Arrival

\* C5: for arrival a and shelf-stock s, both HH:MM times, delay minutes is
\* s - a when s >= a and s - a + 1440 when s < a, that is (s - a) mod 1440;
\* 08:00 / 08:45 gives 45 and 23:50 / 00:10 gives 20.
C5_DelayIsDifferenceMod1440 ==
    Loaded =>
        \A i \in 1..Len(df) :
            LET a == MinutesOfDay(csv[i].Arrival)
                s == MinutesOfDay(csv[i].Shelf)
            IN  /\ (ValidHM(csv[i].Arrival) /\ ValidHM(csv[i].Shelf)) =>
                      /\ df[i].Delay_Minutes = Num((s - a) % 1440)
                      /\ s >= a => df[i].Delay_Minutes = Num(s - a)
                      /\ s < a => df[i].Delay_Minutes = Num(s - a + 1440)
                /\ (csv[i].Arrival = <<8, 0>> /\ csv[i].Shelf = <<8, 45>>) =>
                      df[i].Delay_Minutes = Num(45)
                /\ (csv[i].Arrival = <<23, 50>> /\ csv[i].Shelf = <<0, 10>>) =>
                      df[i].Delay_Minutes = Num(20)

\* A loaded table holding Scenario A and Scenario B.
C5_Witness ==
    /\ Loaded
    /\ \E i \in 1..Len(df) : csv[i].Arrival = <<8, 0>> /\ csv[i].Shelf = <<8, 45>>
    /\ \E i \in 1..Len(df) : csv[i].Arrival = <<23, 50>> /\ csv[i].Shelf = <<0, 10>>

\* C6: after the load no delay reason is missing, an absent one is "None"
\* and a present one is kept; delayed_count counts the rows of the working
\* subset whose reason is not "None", so no row whose reason was absent.
C6_ReasonNeverMissing ==
    /\ Loaded =>
          \A i \in 1..Len(df) :
              /\ df[i].Reason # NA
              /\ csv[i].Reason = NA => df[i].Reason = "None"
              /\ csv[i].Reason # NA => df[i].Reason = csv[i].Reason
    /\ kpi.computed =>
          /\ kpi.delayed_deliveries =
                Cardinality({k \in 1..Len(filtered_df) :
                                df[filtered_df[k]].Reason # "None"})
          /\ kpi.delayed_deliveries =
                Cardinality({i \in Range(filtered_df) : csv[i].Reason # NA})

\* Scenario C: metrics over a subset with a row whose reason was absent and
\* a delayed row.
C6_Witness ==
    /\ kpi.computed
    /\ \E i \in Range(filtered_df) : csv[i].Reason = NA
    /\ kpi.delayed_deliveries > 0

\* C7: over a non-empty working subset the delayed and stockout counts lie
\* in 0..total_count, both percentages lie in [0, 100], and delayed_pct plus
\* the percentage of "None" rows is within 0.1 of 100 (values in tenths),
\* in the state the metrics step leaves; no later step writes the metrics.
C7_PercentagesInRange ==
    (kpi.computed /\ pc = "tab1") =>
        LET total == kpi.total_deliveries
            rest == Percentage(total - kpi.delayed_deliveries, total)
        IN  /\ total = Len(filtered_df)
            /\ kpi.delayed_deliveries \in 0..total
            /\ kpi.stockouts \in 0..total
            /\ kpi.delay_percentage \in 0..1000
            /\ kpi.stockout_percentage \in 0..1000
            /\ kpi.delay_percentage + rest \in 999..1001

\* Metrics where the rounding acts: one delayed row in three, 33.3 %.
C7_Witness ==
    /\ kpi.computed
    /\ kpi.total_deliveries = 3 /\ kpi.delayed_deliveries = 1
    /\ kpi.delay_percentage = 333
    /\ kpi.stockouts = 2 /\ kpi.stockout_percentage = 667

\* C8: the load keeps every record whatever its time cells hold; a cell
\* that is no HH:MM time becomes NaT and any other cell a time; delay
\* minutes is NaN for exactly the records whose arrival or shelf-stock time
\* is NaT, and a number of minutes in 0..1439 for every other record.
C8_BadTimeBecomesMissing ==
    Loaded =>
        /\ Len(df) = Len(csv)
        /\ \A i \in 1..Len(df) :
              /\ df[i].Arrival.nat <=> ~ValidHM(csv[i].Arrival)
              /\ df[i].Unloading.nat <=> ~ValidHM(csv[i].Unloading)
              /\ df[i].Shelf.nat <=> ~ValidHM(csv[i].Shelf)
              /\ df[i].Delay_Minutes.nan <=>
                    (~ValidHM(csv[i].Arrival) \/ ~ValidHM(csv[i].Shelf))
              /\ ~df[i].Delay_Minutes.nan => df[i].Delay_Minutes.v \in 0..1439

\* A loaded table with a record whose only bad cell is the unloading time,
\* beside a record whose arrival time is bad.
C8_Witness ==
    /\ Loaded
    /\ \E i \in 1..Len(df) :
          /\ ~ValidHM(csv[i].Unloading)
          /\ ValidHM(csv[i].Arrival) /\ ValidHM(csv[i].Shelf)
          /\ ~df[i].Delay_Minutes.nan
    /\ \E i \in 1..Len(df) :
          /\ ~ValidHM(csv[i].Arrival)
          /\ df[i].Delay_Minutes.nan

\* The rows view n aggregates over.
ViewInput(n) ==
    IF n = 1 THEN Range(delay_data(df, filtered_df))
    ELSE IF n = 4 THEN {i \in Range(filtered_df) : df[i].Stockout = "Yes"}
    ELSE Range(filtered_df)

\* C9: every one of the eight views, when the rows it aggregates over are
\* none, shows the informational placeholder.
C9_EveryViewGuardsEmptyInput ==
    \A n \in 1..8 :
        (charts[n] # "pending" /\ ViewInput(n) = {}) => charts[n] = "info"

\* C10: whenever the delay-by-stockout view is drawn it has exactly two
\* bars, one for "Yes" and one for "No".
C10_TwoBars ==
    charts[6] = "chart" => DOMAIN fig6 = {"Yes", "No"}
====
